---- MODULE Spec2Model ----
(***************************************************************************)
(* A model of the penguin front end: the span algebra and source registry  *)
(* (crates/diag), the indentation-sensitive lexer and the Pratt parser     *)
(* (crates/syntax).  Characters are one-character strings, a text is a     *)
(* sequence of characters, offsets are 0-based as in the Rust code.        *)
(***************************************************************************)
EXTENDS Integers, Sequences, FiniteSets, TLC

VARIABLES
    \* Lexer (lexer.rs:75-81) and the locals of Lexer::lex_all (lexer.rs:299-300)
    input, pos, file_id, indent_stack, pending, tokens, errors, lex_result,
    \* Parser (parser.rs:101-106) and the value of the last parse_expr call
    p_tokens, p_pos, p_errors, p_result,
    \* arguments and results of the last Span::merge calls
    sp_args, sp_out,
    \* SourceManager.files (source.rs:47-49), the last line_col or get_file call
    \* and the last add_file call
    files, lc_out, add_out,
    \* the error handed to into_diagnostic and the Diagnostic it returned
    dg_in, dg_out

lexVars == <<input, pos, file_id, indent_stack, pending, tokens, errors, lex_result>>
parseVars == <<p_tokens, p_pos, p_errors, p_result>>
spanVars == <<sp_args, sp_out>>
srcVars == <<files, lc_out, add_out>>
diagVars == <<dg_in, dg_out>>
vars == <<lexVars, parseVars, spanVars, srcVars, diagVars>>

\* ------------------------------------------------------------------ bounds
MaxLayoutLen == 6
MaxOperatorLen == 3
MaxNumTail == 2
MaxLines == 3
MaxIndent == 3
MaxOps == 3
MaxFreeToks == 4
MaxOffset == 3
MaxSrcLen == 2
MaxFiles == 2
MaxQueryPos == 4
MaxExpected == 2
MaxCursorToks == 2
MaxErrors == 1
MaxWideLen == 3

\* All sequences over S of length at most n.
SeqsUpTo(S, n) == UNION {[1..k -> S] : k \in 0..n}

\* ------------------------------------------------------------------ span.rs
Span(s, e) == [start |-> s, end |-> e]

\* usize::min / usize::max as used by Span::merge
UMin(a, b) == IF a <= b THEN a ELSE b
UMax(a, b) == IF a >= b THEN a ELSE b

\* Span::merge keeping the receiver's start
MergeKeepsStart(a, b) == Span(a.start, UMax(a.end, b.end))
Merge(a, b) == Span(UMin(a.start, b.start), UMax(a.end, b.end))

\* ------------------------------------------------------------------ source.rs
\* char::len_utf8 of the characters used in texts
ByteLen(c) == IF c = "é" THEN 2 ELSE 1

\* compute_line_starts: offset 0, then the byte offset after every '\n';
\* i is the index of the next character, idx its byte offset
RECURSIVE LineStartsFrom(_, _, _)
LineStartsFrom(source, i, idx) ==
    IF i > Len(source) THEN <<>>
    ELSE (IF source[i] = "\n" THEN <<idx + 1>> ELSE <<>>)
            \o LineStartsFrom(source, i + 1, idx + ByteLen(source[i]))
ComputeLineStarts(source) == <<0>> \o LineStartsFrom(source, 1, 0)

\* SourceFile::new
SourceFile(name, source, line_starts) ==
    [name |-> name, source |-> source, line_starts |-> line_starts]

\* <[BytePos]>::binary_search on a strictly increasing slice: Ok(i) with the
\* 0-based index of x, or Err(i) with the index where x would be inserted
BinarySearch(s, x) ==
    IF \E i \in DOMAIN s : s[i] = x
    THEN [found |-> TRUE, idx |-> (CHOOSE i \in DOMAIN s : s[i] = x) - 1]
    ELSE [found |-> FALSE, idx |-> Cardinality({i \in DOMAIN s : s[i] < x})]

\* SourceFile::line_col taking Err(i) as the line index i
LineColErrIndex(file, p) ==
    LET r == BinarySearch(file.line_starts, p)
        line == UMin(r.idx, Len(file.line_starts) - 1)
    IN  [line |-> line + 1, col |-> p - file.line_starts[line + 1] + 1,
         panics |-> p < file.line_starts[line + 1]]

\* SourceFile::line_col; panics tells that the usize subtraction of
\* source.rs:38 underflows
LineCol(file, p) ==
    LET r == BinarySearch(file.line_starts, p)
        line == IF r.found THEN r.idx ELSE IF r.idx = 0 THEN 0 ELSE r.idx - 1
    IN  [line |-> line + 1, col |-> p - file.line_starts[line + 1] + 1,
         panics |-> p < file.line_starts[line + 1]]

\* the byte offset of the boundary after the first k characters of source
RECURSIVE ByteOffset(_, _)
ByteOffset(source, k) ==
    IF k = 0 THEN 0 ELSE ByteOffset(source, k - 1) + ByteLen(source[k])

\* SourceFile::source: str::get of the byte range of span, None unless the
\* range is ordered and both ends are character boundaries of the text
SourceText(file, span) ==
    LET bounds == {ByteOffset(file.source, k) : k \in 0..Len(file.source)}
    IN  IF span.start <= span.end /\ span.start \in bounds /\ span.end \in bounds
        THEN [some |-> TRUE,
              text |-> SelectSeq([k \in 1..Len(file.source) |->
                                     [c |-> file.source[k],
                                      in |-> /\ ByteOffset(file.source, k - 1) >= span.start
                                             /\ ByteOffset(file.source, k) <= span.end]],
                                 LAMBDA x : x.in)]
        ELSE [some |-> FALSE, text |-> <<>>]

\* ------------------------------------------------------------------ characters
NUL == "NUL"
Digits == {"0", "1", "2", "3", "4", "5", "6", "7", "8", "9"}
Letters == {"a", "b", "c", "d", "e", "f", "g", "h", "i", "j", "k", "l", "m",
            "n", "o", "p", "q", "r", "s", "t", "u", "v", "w", "x", "y", "z",
            "A", "Z"}
\* alphabetic characters outside ASCII: char::is_alphanumeric accepts them,
\* the 'a'..='z' | 'A'..='Z' | '_' arm of next_token does not
WideLetters == {"é"}

IsAsciiDigit(c) == c \in Digits
IsAlphanumeric(c) == c \in Letters \cup Digits \cup WideLetters
IsIdentStart(c) == c \in Letters \cup {"_"}

\* ------------------------------------------------------------------ lexer.rs
\* Lexer::current with self.pos = p
Current(inp, p) == IF p < Len(inp) THEN inp[p + 1] ELSE NUL

\* Lexer::peek with self.pos = p
Peek(inp, p) == IF p + 1 < Len(inp) THEN inp[p + 2] ELSE NUL

\* Lexer::skip_whitespace: the cursor after the run of ' ', '\t', '\r'
RECURSIVE SkipWhitespace(_, _)
SkipWhitespace(inp, p) ==
    IF Current(inp, p) \in {" ", "\t", "\r"} THEN SkipWhitespace(inp, p + 1) ELSE p

\* the loop of Lexer::lex_ident: the cursor after the identifier
RECURSIVE IdentEnd(_, _)
IdentEnd(inp, p) ==
    IF IsAlphanumeric(Current(inp, p)) \/ Current(inp, p) = "_"
    THEN IdentEnd(inp, p + 1) ELSE p

\* the loop of Lexer::lex_num: the cursor after the digit run
RECURSIVE DigitsEnd(_, _)
DigitsEnd(inp, p) ==
    IF IsAsciiDigit(Current(inp, p)) THEN DigitsEnd(inp, p + 1) ELSE p

\* Lexer::count_indent: the cursor after the run of ' ' (the count is the
\* difference of the two cursors)
RECURSIVE CountIndentEnd(_, _)
CountIndentEnd(inp, p) ==
    IF Current(inp, p) = " " THEN CountIndentEnd(inp, p + 1) ELSE p

\* inp[start..end) as a sequence of characters
Slice(inp, start, end) == [i \in 1..(end - start) |-> inp[start + i]]

\* u64::MAX = 18446744073709551615, digit by digit
U64MaxDigits == <<"1", "8", "4", "4", "6", "7", "4", "4", "0", "7",
                  "3", "7", "0", "9", "5", "5", "1", "6", "1", "5">>

DigitSeq == <<"0", "1", "2", "3", "4", "5", "6", "7", "8", "9">>
DigitVal(c) == CHOOSE i \in 0..9 : DigitSeq[i + 1] = c

RECURSIVE StripZeros(_)
StripZeros(ds) ==
    IF Len(ds) > 1 /\ Head(ds) = "0" THEN StripZeros(Tail(ds)) ELSE ds

\* a <= b for two digit strings of the same length
RECURSIVE DigitsLeq(_, _)
DigitsLeq(a, b) ==
    IF a = <<>> THEN TRUE
    ELSE IF DigitVal(Head(a)) < DigitVal(Head(b)) THEN TRUE
    ELSE IF DigitVal(Head(a)) > DigitVal(Head(b)) THEN FALSE
    ELSE DigitsLeq(Tail(a), Tail(b))

\* str::parse::<u64> that rejects u64::MAX itself
ParsesAsU64Exclusive(text) ==
    /\ text # <<>>
    /\ \A i \in 1..Len(text) : IsAsciiDigit(text[i])
    /\ LET ds == StripZeros(text)
       IN  \/ Len(ds) < Len(U64MaxDigits)
           \/ Len(ds) = Len(U64MaxDigits) /\ ds # U64MaxDigits
                 /\ DigitsLeq(ds, U64MaxDigits)

\* str::parse::<u64> succeeds on a non-empty digit string whose value is at
\* most u64::MAX
ParsesAsU64(text) ==
    /\ text # <<>>
    /\ \A i \in 1..Len(text) : IsAsciiDigit(text[i])
    /\ LET ds == StripZeros(text)
       IN  \/ Len(ds) < Len(U64MaxDigits)
           \/ Len(ds) = Len(U64MaxDigits) /\ DigitsLeq(ds, U64MaxDigits)

NoToken == [kind |-> "None", val |-> <<>>, span |-> Span(0, 0)]
NoError == [kind |-> "None", ch |-> "", text |-> <<>>, span |-> Span(0, 0), file_id |-> 0]
Token(kind, val, span) == [kind |-> kind, val |-> val, span |-> span]
LexerError(kind, ch, text, span, fid) ==
    [kind |-> kind, ch |-> ch, text |-> text, span |-> span, file_id |-> fid]

\* Lexer::lex_num at cursor p: the IntLiteral value (its digits without leading
\* zeros) or the error, and the cursor after the run
LexNum(inp, p, fid) ==
    LET e == DigitsEnd(inp, p)
        text == Slice(inp, p, e)
    IN  IF ParsesAsU64(text)
        THEN [ok |-> TRUE, val |-> StripZeros(text), err |-> NoError, pos |-> e]
        ELSE IF \A i \in 1..Len(text) : IsAsciiDigit(text[i])
        THEN [ok |-> FALSE, val |-> <<>>, pos |-> e,
              err |-> LexerError("NumberTooLarge", "", <<>>, Span(p, e), fid)]
        ELSE [ok |-> FALSE, val |-> <<>>, pos |-> e,
              err |-> LexerError("InvalidNumber", "", text, Span(p, e), fid)]

\* the while-let loop of handle_newline: pop while the top exceeds indent
RECURSIVE PopAbove(_, _)
PopAbove(stack, indent) ==
    IF stack # <<>> /\ stack[Len(stack)] > indent
    THEN PopAbove(SubSeq(stack, 1, Len(stack) - 1), indent)
    ELSE stack

Repeat(x, n) == [i \in 1..n |-> x]

\* handle_newline without the comparison of lexer.rs:170
HandleNewlineUnchecked(inp, p, stack, pend, fid) ==
    LET e == CountIndentEnd(inp, p + 1)
        indent == e - (p + 1)
        popped == PopAbove(stack, indent)
    IN  [ok |-> TRUE, err |-> NoError, pos |-> e,
         indent_stack |-> IF indent > stack[Len(stack)] THEN Append(stack, indent) ELSE popped,
         pending |-> IF indent > stack[Len(stack)] THEN Append(pend, "Indent")
                     ELSE pend \o Repeat("Dedent", Len(stack) - Len(popped))]

\* handle_newline pushing every width that differs from the top of the stack
HandleNewlinePushesAlways(inp, p, stack, pend, fid) ==
    LET e == CountIndentEnd(inp, p + 1)
        indent == e - (p + 1)
    IN  IF indent # stack[Len(stack)]
        THEN [ok |-> TRUE, err |-> NoError, pos |-> e,
              indent_stack |-> Append(stack, indent),
              pending |-> Append(pend, "Indent")]
        ELSE [ok |-> TRUE, err |-> NoError, pos |-> e,
              indent_stack |-> stack, pending |-> pend]

\* Lexer::handle_newline with the cursor p on '\n'
HandleNewline(inp, p, stack, pend, fid) ==
    LET e == CountIndentEnd(inp, p + 1)
        indent == e - (p + 1)
        current == stack[Len(stack)]
        popped == PopAbove(stack, indent)
    IN  IF indent > current
        THEN [ok |-> TRUE, err |-> NoError, pos |-> e,
              indent_stack |-> Append(stack, indent),
              pending |-> Append(pend, "Indent")]
        ELSE IF indent < current
        THEN [ok |-> popped[Len(popped)] = indent,
              err |-> IF popped[Len(popped)] = indent THEN NoError
                      ELSE LexerError("InvalidIndentation", "", <<>>, Span(e, e), fid),
              pos |-> e,
              indent_stack |-> popped,
              pending |-> pend \o Repeat("Dedent", Len(stack) - Len(popped))]
        ELSE [ok |-> TRUE, err |-> NoError, pos |-> e,
              indent_stack |-> stack, pending |-> pend]

\* the keyword table of next_token (lexer.rs:270-280)
KeywordKind(ident) ==
    IF ident = <<"l", "e", "t">> THEN "Let"
    ELSE IF ident = <<"m", "o", "d">> THEN "Mod"
    ELSE IF ident = <<"f", "n">> THEN "Fn"
    ELSE IF ident = <<"n", "o", "t">> THEN "Not"
    ELSE IF ident = <<"u", "6", "4">> THEN "U64"
    ELSE IF ident = <<"i", "6", "4">> THEN "I64"
    ELSE IF ident = <<"t", "r", "u", "e">> THEN "BoolLiteral"
    ELSE IF ident = <<"f", "a", "l", "s", "e">> THEN "BoolLiteral"
    ELSE "Ident"

SingleCharKind(ch) ==
    CASE ch = "(" -> "LParen"
      [] ch = ")" -> "RParen"
      [] ch = "." -> "Dot"
      [] ch = "," -> "Comma"
      [] ch = ":" -> "Colon"
      [] ch = "+" -> "Plus"
      [] ch = "*" -> "Star"
      [] ch = "/" -> "Slash"
      [] ch = "=" -> "Equal"

SingleChars == {"(", ")", ".", ",", ":", "+", "*", "/", "="}

\* the result of next_token: the token or the error, and the lexer's fields
Lexed(kind, val, start, end, stack, pend) ==
    [ok |-> TRUE, tok |-> Token(kind, val, Span(start, end)), err |-> NoError,
     pos |-> end, indent_stack |-> stack, pending |-> pend]
Failed(err, end, stack, pend) ==
    [ok |-> FALSE, tok |-> NoToken, err |-> err,
     pos |-> end, indent_stack |-> stack, pending |-> pend]

\* the `_ =>` arm of next_token: the error, with the cursor left on the character
UnexpectedCharConsumed(inp, p, stack, pend, fid) ==
    Failed(LexerError("UnexpectedCharacter", Current(inp, p), <<>>, Span(p, p), fid),
           p + 1, stack, pend)
UnexpectedChar(inp, p, stack, pend, fid) ==
    Failed(LexerError("UnexpectedCharacter", Current(inp, p), <<>>, Span(p, p), fid),
           p, stack, pend)

\* Lexer::next_token with self.pos = p0
NextToken(inp, p0, stack, pend, fid) ==
    LET p == SkipWhitespace(inp, p0)
        ch == Current(inp, p)
    IN  CASE ch = NUL -> Lexed("Eof", <<>>, p, p + 1, stack, pend)
          [] ch = "\n" ->
                LET h == HandleNewline(inp, p, stack, pend, fid)
                IN  IF h.ok
                    THEN Lexed("Newline", <<>>, p, h.pos, h.indent_stack, h.pending)
                    ELSE Failed(h.err, h.pos, h.indent_stack, h.pending)
          [] ch \in SingleChars -> Lexed(SingleCharKind(ch), <<>>, p, p + 1, stack, pend)
          [] ch = "-" ->
                IF Peek(inp, p + 1) = ">"
                THEN Lexed("Arrow", <<>>, p, p + 2, stack, pend)
                ELSE Lexed("Minus", <<>>, p, p + 1, stack, pend)
          [] ch = "<" ->
                IF Peek(inp, p + 1) = ">"
                THEN Lexed("NotEqual", <<>>, p, p + 2, stack, pend)
                ELSE IF Peek(inp, p + 1) = "="
                THEN Lexed("LessEqual", <<>>, p, p + 2, stack, pend)
                ELSE Lexed("Less", <<>>, p, p + 1, stack, pend)
          [] ch = ">" ->
                IF Peek(inp, p + 1) = "="
                THEN Lexed("GreaterEqual", <<>>, p, p + 2, stack, pend)
                ELSE Lexed("Greater", <<>>, p, p + 1, stack, pend)
          [] ch = "&" /\ Peek(inp, p) = "&" -> Lexed("And", <<>>, p, p + 2, stack, pend)
          [] ch = "|" /\ Peek(inp, p) = "|" -> Lexed("Or", <<>>, p, p + 2, stack, pend)
          [] IsIdentStart(ch) ->
                LET e == IdentEnd(inp, p)
                    ident == Slice(inp, p, e)
                    kind == KeywordKind(ident)
                IN  Lexed(kind, IF kind \in {"Ident", "BoolLiteral"} THEN ident ELSE <<>>,
                          p, e, stack, pend)
          [] IsAsciiDigit(ch) ->
                LET n == LexNum(inp, p, fid)
                IN  IF n.ok THEN Lexed("IntLiteral", n.val, p, n.pos, stack, pend)
                    ELSE Failed(n.err, n.pos, stack, pend)
          [] OTHER -> UnexpectedChar(inp, p, stack, pend, fid)

\* ------------------------------------------------------------------ ast.rs
\* BinOp::binding_power with the two tightest levels exchanged
BindingPowerSwapped(op) ==
    CASE op = "Or" -> <<1, 2>>
      [] op = "And" -> <<3, 4>>
      [] op \in {"Equal", "NotEq"} -> <<5, 6>>
      [] op \in {"Less", "Le", "Greater", "Ge"} -> <<7, 8>>
      [] op \in {"Add", "Sub"} -> <<11, 12>>
      [] op \in {"Mul", "Div", "Mod"} -> <<9, 10>>

\* BinOp::binding_power: <<left, right>>
BindingPower(op) ==
    CASE op = "Or" -> <<1, 2>>
      [] op = "And" -> <<3, 4>>
      [] op \in {"Equal", "NotEq"} -> <<5, 6>>
      [] op \in {"Less", "Le", "Greater", "Ge"} -> <<7, 8>>
      [] op \in {"Add", "Sub"} -> <<9, 10>>
      [] op \in {"Mul", "Div", "Mod"} -> <<11, 12>>

\* Expr = Spanned<ExprKind>
NoExpr == [kind |-> "None"]
Leaf(kind, val, span) == [kind |-> kind, val |-> val, span |-> span]
UnitExpr(span) == [kind |-> "Unit", span |-> span]
UnaryExpr(op, op_span, operand, span) ==
    [kind |-> "Unary", op |-> op, op_span |-> op_span, expr |-> operand, span |-> span]
BinaryExpr(op, op_span, lhs, rhs, span) ==
    [kind |-> "Binary", op |-> op, op_span |-> op_span, lhs |-> lhs, rhs |-> rhs,
     span |-> span]

\* ------------------------------------------------------------------ parser.rs
ParserError(kind, expected, found, span, fid) ==
    [kind |-> kind, expected |-> expected, found |-> found, span |-> span,
     file_id |-> fid]

\* Parser::current with self.pos = p
PCurrent(toks, p) == IF p < Len(toks) THEN toks[p + 1] ELSE toks[Len(toks)]

\* Parser::peek(offset) with self.pos = p
PPeek(toks, p, offset) ==
    IF p + offset < Len(toks) THEN toks[p + offset + 1] ELSE toks[Len(toks)]

\* Parser::peek_is
PPeekIs(toks, p, offset, kind) == PPeek(toks, p, offset).kind = kind

\* Parser::advance without the test of the last index
PAdvanceUnguarded(toks, p) == p + 1
\* Parser::advance: the cursor after the call (the token returned is
\* PCurrent(toks, p))
PAdvance(toks, p) == IF p < Len(toks) - 1 THEN p + 1 ELSE p

\* no error (the Ok side of a Result<_, ParserError>)
NoParserError == ParserError("None", <<>>, "", Span(0, 0), 0)

\* Parser::is_at_end
PIsAtEnd(toks, p) == PCurrent(toks, p).kind = "Eof"

\* Parser::check
PCheck(toks, p, kind) ==
    IF PIsAtEnd(toks, p) THEN FALSE ELSE PCurrent(toks, p).kind = kind

\* Parser::check_any, and the closure sync_tokens.iter().any(|k| self.check(k))
PCheckAny(toks, p, kinds) == \E i \in 1..Len(kinds) : PCheck(toks, p, kinds[i])

\* Parser::match_token: the value returned and the cursor after the call
MatchToken(toks, p, kind) ==
    IF PCheck(toks, p, kind) THEN [ok |-> TRUE, pos |-> PAdvance(toks, p)]
    ELSE [ok |-> FALSE, pos |-> p]

\* Parser::match_any
RECURSIVE MatchAny(_, _, _)
MatchAny(toks, p, kinds) ==
    IF kinds = <<>> THEN [ok |-> FALSE, pos |-> p]
    ELSE IF MatchToken(toks, p, Head(kinds)).ok THEN MatchToken(toks, p, Head(kinds))
    ELSE MatchAny(toks, p, Tail(kinds))

\* Parser::expect that also consumes the token it rejects
ExpectConsumesAlways(toks, p, kind, fid) ==
    IF PCheck(toks, p, kind)
    THEN [ok |-> TRUE, tok |-> PCurrent(toks, p), err |-> NoParserError,
          pos |-> PAdvance(toks, p)]
    ELSE [ok |-> FALSE, tok |-> NoToken,
          err |-> ParserError("UnexpectedToken", <<kind>>, PCurrent(toks, p).kind,
                              PCurrent(toks, p).span, fid),
          pos |-> PAdvance(toks, p)]
\* Parser::expect: Ok(token) or Err(error), and the cursor after the call
Expect(toks, p, kind, fid) ==
    IF PCheck(toks, p, kind)
    THEN [ok |-> TRUE, tok |-> PCurrent(toks, p), err |-> NoParserError,
          pos |-> PAdvance(toks, p)]
    ELSE [ok |-> FALSE, tok |-> NoToken,
          err |-> ParserError("UnexpectedToken", <<kind>>, PCurrent(toks, p).kind,
                              PCurrent(toks, p).span, fid),
          pos |-> p]

\* Parser::skip_newlines: the cursor after the loop
RECURSIVE SkipNewlines(_, _)
SkipNewlines(toks, p) ==
    IF MatchToken(toks, p, "Newline").ok
    THEN SkipNewlines(toks, MatchToken(toks, p, "Newline").pos)
    ELSE p

\* Parser::expect_newline_or_eof
ExpectNewlineOrEof(toks, p, fid) ==
    IF PIsAtEnd(toks, p) \/ PCheck(toks, p, "Newline")
    THEN [ok |-> TRUE, err |-> NoParserError,
          pos |-> IF ~PIsAtEnd(toks, p) THEN PAdvance(toks, p) ELSE p]
    ELSE [ok |-> FALSE,
          err |-> ParserError("UnexpectedToken", <<"Newline", "Eof">>,
                              PCurrent(toks, p).kind, PCurrent(toks, p).span, fid),
          pos |-> p]

\* the sync sets of synchronize_to_statement and synchronize_to_newline
StatementSync == <<"Let", "Fn", "Mod", "Newline", "Eof">>
NewlineSync == <<"Newline", "Eof">>

\* the operator match of parse_binary_expr (parser.rs:340-355)
BinOpOf(kind) ==
    CASE kind = "Plus" -> "Add"
      [] kind = "Minus" -> "Sub"
      [] kind = "Star" -> "Mul"
      [] kind = "Slash" -> "Div"
      [] kind = "Greater" -> "Greater"
      [] kind = "GreaterEqual" -> "Ge"
      [] kind = "Less" -> "Less"
      [] kind = "LessEqual" -> "Le"
      [] kind = "Mod" -> "Mod"
      [] kind = "Equal" -> "Equal"
      [] kind = "NotEqual" -> "NotEq"
      [] kind = "And" -> "And"
      [] kind = "Or" -> "Or"
      [] OTHER -> "None"

\* the value of a parse function: Option<Expr>, with the parser's cursor and
\* error list after the call
Parsed(expr, p, errs) == [ok |-> TRUE, expr |-> expr, pos |-> p, errors |-> errs]
NotParsed(p, errs) == [ok |-> FALSE, expr |-> NoExpr, pos |-> p, errors |-> errs]

RECURSIVE ParsePrimary(_, _, _, _)
RECURSIVE ParseUnaryExpr(_, _, _, _)
RECURSIVE ParseBinaryExpr(_, _, _, _, _)
RECURSIVE BinaryLoop(_, _, _, _, _, _)

\* Parser::parse_expr
ParseExpr(toks, p, errs, fid) == ParseBinaryExpr(toks, p, errs, fid, 0)

\* Parser::parse_primary
ParsePrimary(toks, p, errs, fid) ==
    LET t == PCurrent(toks, p)
    IN  CASE t.kind = "IntLiteral" -> Parsed(Leaf("Int", t.val, t.span), PAdvance(toks, p), errs)
          [] t.kind = "BoolLiteral" -> Parsed(Leaf("Bool", t.val, t.span), PAdvance(toks, p), errs)
          [] t.kind = "Ident" -> Parsed(Leaf("Var", t.val, t.span), PAdvance(toks, p), errs)
          [] t.kind = "LParen" ->
                LET l_span == t.span
                    p1 == PAdvance(toks, p)
                IN  IF PPeekIs(toks, p1, 1, "RParen")
                    THEN Parsed(UnitExpr(Merge(l_span, PCurrent(toks, p1).span)),
                                PAdvance(toks, p1), errs)
                    ELSE LET inner == ParseExpr(toks, p1, errs, fid)
                         IN  IF ~inner.ok THEN inner
                             ELSE Parsed(
                                    [inner.expr EXCEPT !.span =
                                        Merge(Merge(l_span, inner.expr.span),
                                              PCurrent(toks, inner.pos).span)],
                                    PAdvance(toks, inner.pos), inner.errors)
          [] OTHER ->
                NotParsed(p, Append(errs,
                    ParserError("MissingExpression", <<>>, "", t.span, fid)))

\* Parser::parse_unary_expr
ParseUnaryExpr(toks, p, errs, fid) ==
    LET t == PCurrent(toks, p)
    IN  IF t.kind \in {"Minus", "Not"}
        THEN LET start == t.span
                 operand == ParseUnaryExpr(toks, PAdvance(toks, p), errs, fid)
             IN  IF ~operand.ok THEN operand
                 ELSE Parsed(UnaryExpr(IF t.kind = "Minus" THEN "Neg" ELSE "Not", start,
                                       operand.expr, Merge(start, operand.expr.span)),
                             operand.pos, operand.errors)
        ELSE ParsePrimary(toks, p, errs, fid)

\* the loop of parse_binary_expr returning the left operand when the right
\* operand fails
BinaryLoopKeepsLhs(toks, lhs, p, errs, fid, min_bp) ==
    LET op == BinOpOf(PCurrent(toks, p).kind)
    IN  IF op = "None" THEN Parsed(lhs, p, errs)
        ELSE IF BindingPower(op)[1] < min_bp THEN Parsed(lhs, p, errs)
        ELSE LET op_span == PCurrent(toks, p).span
                 rhs == ParseBinaryExpr(toks, PAdvance(toks, p), errs, fid,
                                        BindingPower(op)[2])
             IN  IF ~rhs.ok THEN Parsed(lhs, rhs.pos, rhs.errors)
                 ELSE BinaryLoop(toks,
                                 BinaryExpr(op, op_span, lhs, rhs.expr,
                                            Merge(lhs.span, rhs.expr.span)),
                                 rhs.pos, rhs.errors, fid, min_bp)

\* the loop of parse_binary_expr (parser.rs:339-371) with lhs parsed
BinaryLoop(toks, lhs, p, errs, fid, min_bp) ==
    LET op == BinOpOf(PCurrent(toks, p).kind)
    IN  IF op = "None" THEN Parsed(lhs, p, errs)
        ELSE IF BindingPower(op)[1] < min_bp THEN Parsed(lhs, p, errs)
        ELSE LET op_span == PCurrent(toks, p).span
                 rhs == ParseBinaryExpr(toks, PAdvance(toks, p), errs, fid,
                                        BindingPower(op)[2])
             IN  IF ~rhs.ok THEN rhs
                 ELSE BinaryLoop(toks,
                                 BinaryExpr(op, op_span, lhs, rhs.expr,
                                            Merge(lhs.span, rhs.expr.span)),
                                 rhs.pos, rhs.errors, fid, min_bp)

\* Parser::parse_binary_expr
ParseBinaryExpr(toks, p, errs, fid, min_bp) ==
    LET lhs == ParseUnaryExpr(toks, p, errs, fid)
    IN  IF ~lhs.ok THEN lhs
        ELSE BinaryLoop(toks, lhs.expr, lhs.pos, lhs.errors, fid, min_bp)

\* ------------------------------------------------------------------ diagnostics
\* A String is the sequence of the pieces it was formatted from; String::new()
\* is <<>>.  An Option<String> is a record with the field some.
\* the character U+0060, which a string of this language cannot hold
Backtick == "BACKTICK"
NoneStr == [some |-> FALSE, text |-> <<>>]
SomeStr(text) == [some |-> TRUE, text |-> text]

\* String::is_empty: every piece is the empty string
StrIsEmpty(text) == \A i \in 1..Len(text) : text[i] = ""

\* Label::primary with the flag of Label::secondary
LabelPrimaryUnflagged(fid, span) ==
    [span |-> span, file_id |-> fid, message |-> NoneStr, is_primary |-> FALSE]
\* Label::primary
LabelPrimary(fid, span) ==
    [span |-> span, file_id |-> fid, message |-> NoneStr, is_primary |-> TRUE]

\* Label::with_message
LabelWithMessage(label, text) == [label EXCEPT !.message = SomeStr(text)]

\* Diagnostic::new
DiagnosticNew(severity) ==
    [severity |-> severity, message |-> <<>>, code |-> NoneStr, labels |-> <<>>,
     notes |-> <<>>, help |-> NoneStr]

\* Diagnostic::with_message, with_label, with_note, with_help
WithMessage(d, text) == [d EXCEPT !.message = text]
WithLabel(d, label) == [d EXCEPT !.labels = Append(@, label)]
WithNote(d, text) == [d EXCEPT !.notes = Append(@, text)]
WithHelp(d, text) == [d EXCEPT !.help = SomeStr(text)]

\* <LexerError as DiagnosticConvertible>::into_diagnostic
LexerIntoDiagnostic(err) ==
    CASE err.kind = "UnexpectedCharacter" ->
           WithHelp(
             WithLabel(
               WithMessage(DiagnosticNew("Error"),
                           <<"unexpected character ", Backtick, err.ch, Backtick>>),
               LabelWithMessage(LabelPrimary(err.file_id, err.span),
                                <<"this character is not valid here">>)),
             <<"remove this character or replace it with a valid token">>)
      [] err.kind = "InvalidNumber" ->
           WithHelp(
             WithLabel(
               WithMessage(DiagnosticNew("Error"), <<"invalid number literal">>),
               LabelWithMessage(LabelPrimary(err.file_id, err.span),
                                <<Backtick>> \o err.text \o <<Backtick, " is not a valid number">>)),
             <<"check that the number uses valid digits and does not contain extra symbols">>)
      [] err.kind = "NumberTooLarge" ->
           WithHelp(
             WithLabel(
               WithMessage(DiagnosticNew("Error"), <<"number literal is too large">>),
               LabelWithMessage(LabelPrimary(err.file_id, err.span),
                                <<"this value does not fit in the target integer type">>)),
             <<"try using a smaller value or a wider integer type if available">>)
      [] err.kind = "InvalidIndentation" ->
           WithHelp(
             WithNote(
               WithLabel(
                 WithMessage(DiagnosticNew("Error"), <<"invalid indentation">>),
                 LabelWithMessage(LabelPrimary(err.file_id, err.span),
                                  <<"this indentation does not match any previous block level">>)),
               <<"indentation must match the indentation of a previous block exactly">>),
             <<"align this line with a previous block or fix inconsistent spaces/tabs">>)

\* <TokenKind as Display>::fmt
DisplayKind(kind) ==
    CASE kind = "IntLiteral" -> <<"integer literal">>
      [] kind = "BoolLiteral" -> <<"boolean literal">>
      [] kind = "Ident" -> <<"identifier">>
      [] kind = "Let" -> <<Backtick, "let", Backtick>>
      [] kind = "Mod" -> <<Backtick, "mod", Backtick>>
      [] kind = "Not" -> <<Backtick, "not", Backtick>>
      [] kind = "Plus" -> <<Backtick, "+", Backtick>>
      [] kind = "Minus" -> <<Backtick, "-", Backtick>>
      [] kind = "Star" -> <<Backtick, "*", Backtick>>
      [] kind = "Slash" -> <<Backtick, "/", Backtick>>
      [] kind = "Equal" -> <<Backtick, "=", Backtick>>
      [] kind = "NotEqual" -> <<Backtick, "<>", Backtick>>
      [] kind = "Less" -> <<Backtick, "<", Backtick>>
      [] kind = "LessEqual" -> <<Backtick, "<=", Backtick>>
      [] kind = "Greater" -> <<Backtick, ">", Backtick>>
      [] kind = "GreaterEqual" -> <<Backtick, ">=", Backtick>>
      [] kind = "And" -> <<Backtick, "&&", Backtick>>
      [] kind = "Or" -> <<Backtick, "||", Backtick>>
      [] kind = "LParen" -> <<Backtick, "(", Backtick>>
      [] kind = "RParen" -> <<Backtick, ")", Backtick>>
      [] kind = "Comma" -> <<Backtick, ",", Backtick>>
      [] kind = "Dot" -> <<Backtick, ".", Backtick>>
      [] kind = "Colon" -> <<Backtick, ":", Backtick>>
      [] kind = "Newline" -> <<"newline">>
      [] kind = "Eof" -> <<"end of file">>
      [] kind = "Fn" -> <<Backtick, "fn", Backtick>>
      [] kind = "Indent" -> <<Backtick, "indent", Backtick>>
      [] kind = "Dedent" -> <<"dedent">>
      [] kind = "Arrow" -> <<Backtick, "->", Backtick>>
      [] kind = "U64" -> <<"u64">>
      [] kind = "I64" -> <<"i64">>

\* format!("[{:?}]", k) with backticks for the brackets: the derived Debug of a TokenKind prints the variant
DebugQuoted(kind) == <<Backtick, kind, Backtick>>

\* [String]::join(", ")
RECURSIVE JoinComma(_)
JoinComma(texts) ==
    IF texts = <<>> THEN <<>>
    ELSE IF Len(texts) = 1 THEN texts[1]
    ELSE texts[1] \o <<", ">> \o JoinComma(Tail(texts))

\* ParserError::InvalidSyntax { message, span, file_id }
InvalidSyntax(message, span, fid) ==
    [kind |-> "InvalidSyntax", message |-> message, span |-> span, file_id |-> fid]

\* <ParserError as DiagnosticConvertible>::into_diagnostic
ParserIntoDiagnostic(err) ==
    CASE err.kind = "UnexpectedToken" ->
           LET expected_str ==
                 IF err.expected = <<>> THEN <<"something else">>
                 ELSE IF Len(err.expected) = 1 THEN DebugQuoted(err.expected[1])
                 ELSE <<"one of ">> \o
                      JoinComma([i \in 1..Len(err.expected) |->
                                    DebugQuoted(err.expected[i])])
           IN  WithLabel(
                 WithMessage(DiagnosticNew("Error"),
                             <<"unexpected token ">> \o DebugQuoted(err.found)),
                 LabelWithMessage(LabelPrimary(err.file_id, err.span),
                                  <<"expected ">> \o expected_str \o <<", found ">>
                                     \o DebugQuoted(err.found)))
      [] err.kind = "UnexpectedEof" ->
           LET expected_str ==
                 IF err.expected = <<>> THEN <<"more input">>
                 ELSE JoinComma([i \in 1..Len(err.expected) |->
                                    DisplayKind(err.expected[i])])
           IN  WithLabel(
                 WithMessage(DiagnosticNew("Error"), <<"unexpected end of file">>),
                 LabelWithMessage(LabelPrimary(err.file_id, err.span),
                                  <<"expected ">> \o expected_str))
      [] err.kind = "MissingExpression" ->
           WithLabel(
             WithMessage(DiagnosticNew("Error"), <<"expected expression">>),
             LabelWithMessage(LabelPrimary(err.file_id, err.span),
                              <<"expression expected here">>))
      [] err.kind = "InvalidSyntax" ->
           WithLabel(
             WithMessage(DiagnosticNew("Error"), <<"invalid syntax">>),
             LabelWithMessage(LabelPrimary(err.file_id, err.span), err.message))

\* ------------------------------------------------------------------ lex_all
\* the inputs: layout texts, operator texts, and digit runs around u64::MAX
\* followed by a short tail
LayoutChars == {" ", "\n", "a", "@"}
OperatorChars == {"-", ">", "<", "=", "&", "|", "(", "1", "a", "\n", NUL}
NumTailChars == {"@", "\n", " ", "a"}
BigRuns ==
    { U64MaxDigits,
      [U64MaxDigits EXCEPT ![20] = "6"],
      <<"0">> \o U64MaxDigits,
      Repeat("9", 20),
      U64MaxDigits \o <<"0">> }
NumberInputs == {d \o t : d \in BigRuns, t \in SeqsUpTo(NumTailChars, MaxNumTail)}
\* texts with a letter outside ASCII
WideChars == {"a", "é", " "}
\* the input of src/main.rs with the blanks of the documented example
ExampleUnexpected == <<"2", "3", " ", "+", " ", "1", " ", "@">>
\* the text of lines given by their indentation: each line is a line break,
\* its leading spaces and, if word, one letter
RECURSIVE LinesText(_)
LinesText(lines) ==
    IF lines = <<>> THEN <<>>
    ELSE <<"\n">> \o Repeat(" ", Head(lines).indent)
            \o (IF Head(lines).word THEN <<"a">> ELSE <<>>)
            \o LinesText(Tail(lines))

\* input is one of the texts lex_all is run on
IsLexInput(inp) ==
    \/ \E n \in 0..MaxLines :
          \E lines \in [1..n -> [indent : 0..MaxIndent, word : BOOLEAN]] :
             inp = LinesText(lines)
    \/ \E n \in 0..MaxLayoutLen : inp \in [1..n -> LayoutChars]
    \/ \E n \in 0..MaxOperatorLen : inp \in [1..n -> OperatorChars]
    \/ \E n \in 0..MaxWideLen : inp \in [1..n -> WideChars]
    \/ inp \in NumberInputs
    \/ inp = ExampleUnexpected

LexIdle ==
    /\ input = <<>> /\ pos = 0 /\ file_id = 0 /\ indent_stack = <<0>>
    /\ pending = <<>> /\ tokens = <<>> /\ errors = <<>> /\ lex_result = "idle"
ParseIdle ==
    /\ p_tokens = <<>> /\ p_pos = 0 /\ p_errors = <<>>
    /\ p_result = [state |-> "idle", ok |-> FALSE, expr |-> NoExpr]
SpanIdle == sp_args = "idle" /\ sp_out = "idle"
SrcIdle == files = <<>> /\ lc_out = "idle" /\ add_out = "idle"
DiagIdle == dg_in = "idle" /\ dg_out = "idle"

\* Lexer::new followed by the first two lines of lex_all
LexInit ==
    /\ IsLexInput(input)
    /\ pos = 0
    /\ file_id = 0
    /\ indent_stack = <<0>>
    /\ pending = <<>>
    /\ tokens = <<>>
    /\ errors = <<>>
    /\ lex_result = "running"
    /\ ParseIdle /\ SpanIdle /\ SrcIdle /\ DiagIdle

\* what the next call of next_token returns
Scan == NextToken(input, pos, indent_stack, pending, file_id)

\* one iteration of the loop of lex_all: next_token returned a token other than Eof
LexTokenStep ==
    /\ lex_result = "running"
    /\ Scan.ok /\ Scan.tok.kind # "Eof"
    /\ tokens' = Append(tokens, Scan.tok)
    /\ pos' = Scan.pos
    /\ indent_stack' = Scan.indent_stack
    /\ pending' = Scan.pending
    /\ UNCHANGED <<input, file_id, errors, lex_result, parseVars, spanVars, srcVars, diagVars>>

\* the last iteration with the result taken to be Ok whatever was recorded
LexEofStepAlwaysOk ==
    /\ lex_result = "running"
    /\ Scan.ok /\ Scan.tok.kind = "Eof"
    /\ tokens' = tokens
                    \o Repeat(Token("Dedent", <<>>, Scan.tok.span), Len(Scan.indent_stack) - 1)
                    \o <<Scan.tok>>
    /\ indent_stack' = SubSeq(Scan.indent_stack, 1, 1)
    /\ pos' = Scan.pos
    /\ pending' = Scan.pending
    /\ lex_result' = "Ok"
    /\ UNCHANGED <<input, file_id, errors, parseVars, spanVars, srcVars, diagVars>>

\* the last iteration without the loop of lexer.rs:307-313
LexEofStepNoUnwind ==
    /\ lex_result = "running"
    /\ Scan.ok /\ Scan.tok.kind = "Eof"
    /\ tokens' = Append(tokens, Scan.tok)
    /\ indent_stack' = Scan.indent_stack
    /\ pos' = Scan.pos
    /\ pending' = Scan.pending
    /\ lex_result' = IF errors = <<>> THEN "Ok" ELSE "Err"
    /\ UNCHANGED <<input, file_id, errors, parseVars, spanVars, srcVars, diagVars>>

\* the last iteration: next_token returned Eof, the open levels are unwound and
\* lex_all returns Ok(tokens) or Err(errors)
LexEofStep ==
    /\ lex_result = "running"
    /\ Scan.ok /\ Scan.tok.kind = "Eof"
    /\ tokens' = tokens
                    \o Repeat(Token("Dedent", <<>>, Scan.tok.span), Len(Scan.indent_stack) - 1)
                    \o <<Scan.tok>>
    /\ indent_stack' = SubSeq(Scan.indent_stack, 1, 1)
    /\ pos' = Scan.pos
    /\ pending' = Scan.pending
    /\ lex_result' = IF errors = <<>> THEN "Ok" ELSE "Err"
    /\ UNCHANGED <<input, file_id, errors, parseVars, spanVars, srcVars, diagVars>>

\* the failing iteration without the advance of lexer.rs:321
LexErrorStepNoAdvance ==
    /\ lex_result = "running"
    /\ ~Scan.ok
    /\ errors' = Append(errors, Scan.err)
    /\ pos' = Scan.pos
    /\ indent_stack' = Scan.indent_stack
    /\ pending' = Scan.pending
    /\ UNCHANGED <<input, file_id, tokens, lex_result, parseVars, spanVars, srcVars, diagVars>>

\* one iteration of the loop: next_token failed, the error is kept and the
\* cursor advances by one
LexErrorStep ==
    /\ lex_result = "running"
    /\ ~Scan.ok
    /\ errors' = Append(errors, Scan.err)
    /\ pos' = Scan.pos + 1
    /\ indent_stack' = Scan.indent_stack
    /\ pending' = Scan.pending
    /\ UNCHANGED <<input, file_id, tokens, lex_result, parseVars, spanVars, srcVars, diagVars>>

LexNext == LexTokenStep \/ LexEofStep \/ LexErrorStep
LexSpec == LexInit /\ [][LexNext]_vars

\* ------------------------------------------------------------------ parsing
\* the token sequences: the i-th token covers the i-th character (every token
\* one character wide, none separated), the last token is Eof
TokenAt(kind, i) ==
    Token(kind,
          IF kind = "IntLiteral" THEN <<"1">>
          ELSE IF kind = "Ident" THEN <<"a">>
          ELSE IF kind = "BoolLiteral" THEN <<"t", "r", "u", "e">>
          ELSE <<>>,
          Span(i - 1, i))
TokensOf(kinds) == [i \in 1..Len(kinds) |-> TokenAt(kinds[i], i)]

BinaryKinds ==
    {"Plus", "Minus", "Star", "Slash", "Mod", "Equal", "NotEqual", "Less",
     "LessEqual", "Greater", "GreaterEqual", "And", "Or"}
FreeKinds ==
    {"IntLiteral", "Ident", "LParen", "RParen", "Plus", "Minus", "Star", "Not", "Newline"}

\* operand (operator operand)* with the operators ops
ChainKinds(ops) ==
    [i \in 1..(2 * Len(ops) + 1) |-> IF i % 2 = 1 THEN "IntLiteral" ELSE ops[i \div 2]]

\* toks is one of the token sequences the parser is built over
IsParseInput(toks) ==
    \/ \E n \in 0..MaxOps : \E ops \in [1..n -> BinaryKinds] :
          toks = TokensOf(ChainKinds(ops) \o <<"Eof">>)
    \/ \E n \in 0..MaxFreeToks : \E ks \in [1..n -> FreeKinds] :
          toks = TokensOf(ks \o <<"Eof">>)

\* Parser::new
ParseInit ==
    /\ IsParseInput(p_tokens)
    /\ p_pos = 0
    /\ p_errors = <<>>
    /\ p_result = [state |-> "ready", ok |-> FALSE, expr |-> NoExpr]
    /\ LexIdle /\ SpanIdle /\ SrcIdle /\ DiagIdle

\* a call of Parser::parse_expr
CallParseExpr ==
    /\ p_result.state = "ready"
    /\ LET r == ParseExpr(p_tokens, p_pos, p_errors, file_id)
       IN  /\ p_pos' = r.pos
           /\ p_errors' = r.errors
           /\ p_result' = [state |-> "done", ok |-> r.ok, expr |-> r.expr]
    /\ UNCHANGED <<p_tokens, lexVars, spanVars, srcVars, diagVars>>

ParseNext == CallParseExpr
ParseSpec == ParseInit /\ [][ParseNext]_vars

\* ------------------------------------------------------------------ parser cursor
\* the operations of the parser in any order, over short free token sequences
CursorKinds == {"IntLiteral", "RParen", "Newline"}
ExpectKinds == {"RParen", "Eof"}
SyncSets == {StatementSync, <<"RParen">>, <<>>}

CursorInit ==
    /\ \E n \in 0..MaxCursorToks : \E ks \in [1..n -> CursorKinds] :
          p_tokens = TokensOf(ks \o <<"Eof">>)
    /\ p_pos = 0
    /\ p_errors = <<>>
    /\ p_result = [state |-> "ready", ok |-> FALSE, expr |-> NoExpr]
    /\ LexIdle /\ SpanIdle /\ SrcIdle /\ DiagIdle

\* no call of synchronize is under way
CursorFree == p_result.state \in {"ready", "done"}

\* self.current()
CallCurrent ==
    /\ CursorFree
    /\ p_result' = [state |-> "done", op |-> "current",
                    tok |-> PCurrent(p_tokens, p_pos)]
    /\ UNCHANGED <<p_tokens, p_pos, p_errors, lexVars, spanVars, srcVars, diagVars>>

\* self.peek(offset)
CallPeek(offset) ==
    /\ CursorFree
    /\ p_result' = [state |-> "done", op |-> "peek", offset |-> offset,
                    tok |-> PPeek(p_tokens, p_pos, offset)]
    /\ UNCHANGED <<p_tokens, p_pos, p_errors, lexVars, spanVars, srcVars, diagVars>>

\* self.advance()
CallAdvance ==
    /\ CursorFree
    /\ p_pos' = PAdvance(p_tokens, p_pos)
    /\ p_result' = [state |-> "done", op |-> "advance",
                    tok |-> PCurrent(p_tokens, p_pos)]
    /\ UNCHANGED <<p_tokens, p_errors, lexVars, spanVars, srcVars, diagVars>>

\* self.match_token(kind)
CallMatchToken(kind) ==
    /\ CursorFree
    /\ p_pos' = MatchToken(p_tokens, p_pos, kind).pos
    /\ p_result' = [state |-> "done", op |-> "match_token", kind |-> kind,
                    ok |-> MatchToken(p_tokens, p_pos, kind).ok]
    /\ UNCHANGED <<p_tokens, p_errors, lexVars, spanVars, srcVars, diagVars>>

\* self.match_any(kinds)
CallMatchAny(kinds) ==
    /\ CursorFree
    /\ p_pos' = MatchAny(p_tokens, p_pos, kinds).pos
    /\ p_result' = [state |-> "done", op |-> "match_any", kinds |-> kinds,
                    ok |-> MatchAny(p_tokens, p_pos, kinds).ok]
    /\ UNCHANGED <<p_tokens, p_errors, lexVars, spanVars, srcVars, diagVars>>

\* self.expect(kind)
CallExpect(kind) ==
    /\ CursorFree
    /\ LET r == Expect(p_tokens, p_pos, kind, file_id)
       IN  /\ p_pos' = r.pos
           /\ p_result' = [state |-> "done", op |-> "expect", kind |-> kind,
                           ok |-> r.ok, tok |-> r.tok, err |-> r.err]
    /\ UNCHANGED <<p_tokens, p_errors, lexVars, spanVars, srcVars, diagVars>>

\* self.expect_with_recovery(kind, sync_tokens) up to the call of synchronize
CallExpectWithRecovery(kind, sync_tokens) ==
    /\ CursorFree
    /\ Len(p_errors) < MaxErrors
    /\ LET r == Expect(p_tokens, p_pos, kind, file_id)
       IN  /\ p_pos' = r.pos
           /\ p_errors' = IF r.ok THEN p_errors ELSE Append(p_errors, r.err)
           /\ p_result' =
                IF r.ok
                THEN [state |-> "done", op |-> "expect_with_recovery",
                      kind |-> kind, ok |-> TRUE, tok |-> r.tok]
                ELSE [state |-> "syncing", op |-> "expect_with_recovery",
                      kind |-> kind, sync |-> sync_tokens, from |-> p_pos,
                      iters |-> 0]
    /\ UNCHANGED <<p_tokens, lexVars, spanVars, srcVars, diagVars>>

\* self.error_and_recover(error, sync_tokens) up to the call of synchronize,
\* with an InvalidSyntax error at the current token
CallErrorAndRecover(sync_tokens) ==
    /\ CursorFree
    /\ Len(p_errors) < MaxErrors
    /\ p_errors' = Append(p_errors,
                          InvalidSyntax(<<"unexpected statement">>,
                                        PCurrent(p_tokens, p_pos).span, file_id))
    /\ p_result' = [state |-> "syncing", op |-> "error_and_recover",
                    kind |-> "", sync |-> sync_tokens, from |-> p_pos,
                    iters |-> 0]
    /\ UNCHANGED <<p_tokens, p_pos, lexVars, spanVars, srcVars, diagVars>>

\* self.synchronize(sync_tokens), also through synchronize_to_statement and
\* synchronize_to_newline: the entry of the loop
CallSynchronize(sync_tokens) ==
    /\ CursorFree
    /\ p_result' = [state |-> "syncing", op |-> "synchronize",
                    kind |-> "", sync |-> sync_tokens, from |-> p_pos,
                    iters |-> 0]
    /\ UNCHANGED <<p_tokens, p_pos, p_errors, lexVars, spanVars, srcVars, diagVars>>

\* one evaluation of the loop of synchronize that never advances
SyncIterNoAdvance ==
    /\ p_result.state = "syncing"
    /\ IF PIsAtEnd(p_tokens, p_pos) \/ PCheckAny(p_tokens, p_pos, p_result.sync)
       THEN /\ p_result' = [state |-> "done", op |-> p_result.op,
                            kind |-> p_result.kind, sync |-> p_result.sync,
                            from |-> p_result.from, ok |-> FALSE]
            /\ p_pos' = p_pos
       ELSE /\ p_pos' = p_pos
            /\ p_result' = [p_result EXCEPT !.iters = @ + 1]
    /\ UNCHANGED <<p_tokens, p_errors, lexVars, spanVars, srcVars, diagVars>>
\* one evaluation of the loop of synchronize that is left at Eof only
SyncIterToEof ==
    /\ p_result.state = "syncing"
    /\ IF PIsAtEnd(p_tokens, p_pos)
       THEN /\ p_result' = [state |-> "done", op |-> p_result.op,
                            kind |-> p_result.kind, sync |-> p_result.sync,
                            from |-> p_result.from, ok |-> FALSE]
            /\ p_pos' = p_pos
       ELSE /\ p_pos' = PAdvance(p_tokens, p_pos)
            /\ p_result' = [p_result EXCEPT !.iters = @ + 1]
    /\ UNCHANGED <<p_tokens, p_errors, lexVars, spanVars, srcVars, diagVars>>
\* one evaluation of the loop of synchronize: the loop is left at Eof and at a
\* sync token, otherwise the cursor advances (iters counts the iterations)
SyncIter ==
    /\ p_result.state = "syncing"
    /\ IF PIsAtEnd(p_tokens, p_pos) \/ PCheckAny(p_tokens, p_pos, p_result.sync)
       THEN /\ p_result' = [state |-> "done", op |-> p_result.op,
                            kind |-> p_result.kind, sync |-> p_result.sync,
                            from |-> p_result.from, ok |-> FALSE]
            /\ p_pos' = p_pos
       ELSE /\ p_pos' = PAdvance(p_tokens, p_pos)
            /\ p_result' = [p_result EXCEPT !.iters = @ + 1]
    /\ UNCHANGED <<p_tokens, p_errors, lexVars, spanVars, srcVars, diagVars>>

\* self.skip_newlines()
CallSkipNewlines ==
    /\ CursorFree
    /\ p_pos' = SkipNewlines(p_tokens, p_pos)
    /\ p_result' = [state |-> "done", op |-> "skip_newlines"]
    /\ UNCHANGED <<p_tokens, p_errors, lexVars, spanVars, srcVars, diagVars>>

\* self.expect_newline_or_eof()
CallExpectNewlineOrEof ==
    /\ CursorFree
    /\ LET r == ExpectNewlineOrEof(p_tokens, p_pos, file_id)
       IN  /\ p_pos' = r.pos
           /\ p_result' = [state |-> "done", op |-> "expect_newline_or_eof",
                           ok |-> r.ok, err |-> r.err]
    /\ UNCHANGED <<p_tokens, p_errors, lexVars, spanVars, srcVars, diagVars>>

\* self.parse_expr() between the other operations
CallParseExprAgain ==
    /\ CursorFree
    /\ Len(p_errors) < MaxErrors
    /\ LET r == ParseExpr(p_tokens, p_pos, p_errors, file_id)
       IN  /\ p_pos' = r.pos
           /\ p_errors' = r.errors
           /\ p_result' = [state |-> "done", op |-> "parse_expr", ok |-> r.ok,
                           expr |-> r.expr]
    /\ UNCHANGED <<p_tokens, lexVars, spanVars, srcVars, diagVars>>

CursorNext ==
    \/ CallCurrent
    \/ \E offset \in 0..MaxOffset : CallPeek(offset)
    \/ CallAdvance
    \/ \E kind \in ExpectKinds : CallMatchToken(kind)
    \/ CallMatchAny(NewlineSync)
    \/ \E kind \in ExpectKinds : CallExpect(kind)
    \/ \E kind \in ExpectKinds, sync_tokens \in SyncSets :
          CallExpectWithRecovery(kind, sync_tokens)
    \/ \E sync_tokens \in SyncSets : CallErrorAndRecover(sync_tokens)
    \/ \E sync_tokens \in SyncSets : CallSynchronize(sync_tokens)
    \/ SyncIter
    \/ CallSkipNewlines
    \/ CallExpectNewlineOrEof
    \/ CallParseExprAgain
CursorSpec == CursorInit /\ [][CursorNext]_vars

\* ------------------------------------------------------------------ spans
\* the spans Span::new accepts (start <= end), up to MaxOffset
Spans == {sp \in [start : 0..MaxOffset, end : 0..MaxOffset] : sp.start <= sp.end}

SpanInit ==
    /\ sp_args \in [a : Spans, b : Spans, c : Spans]
    /\ sp_out = [state |-> "ready"]
    /\ LexIdle /\ ParseIdle /\ SrcIdle /\ DiagIdle

\* the calls a.merge(b), b.merge(a), a.merge(a), a.merge(b).merge(c) and
\* a.merge(b.merge(c))
CallMerge ==
    /\ sp_out.state = "ready"
    /\ sp_out' = [state |-> "done",
                  ab |-> Merge(sp_args.a, sp_args.b),
                  ba |-> Merge(sp_args.b, sp_args.a),
                  aa |-> Merge(sp_args.a, sp_args.a),
                  ab_c |-> Merge(Merge(sp_args.a, sp_args.b), sp_args.c),
                  a_bc |-> Merge(sp_args.a, Merge(sp_args.b, sp_args.c))]
    /\ UNCHANGED <<sp_args, lexVars, parseVars, srcVars, diagVars>>

SpanNext == CallMerge
SpanSpec == SpanInit /\ [][SpanNext]_vars

\* ------------------------------------------------------------------ registry
SrcChars == {"a", "\n"}
SrcTexts == SeqsUpTo(SrcChars, MaxSrcLen)

SrcInit ==
    /\ files = <<>>
    /\ lc_out = [state |-> "ready"]
    /\ add_out = [state |-> "ready"]
    /\ LexIdle /\ ParseIdle /\ SpanIdle /\ DiagIdle

\* SourceManager::get_file
GetFile(fs, id) ==
    IF id < Len(fs) THEN [some |-> TRUE, file |-> fs[id + 1]]
    ELSE [some |-> FALSE, file |-> SourceFile("", <<>>, <<>>)]

\* SourceManager::add_file that inserts at the front of files
AddFileAtFront(name, source) ==
    /\ Len(files) < MaxFiles
    /\ files' = <<SourceFile(name, source, ComputeLineStarts(source))>> \o files
    /\ add_out' = [state |-> "done", name |-> name, source |-> source,
                   id |-> Len(files)]
    /\ UNCHANGED <<lc_out, lexVars, parseVars, spanVars, diagVars>>
\* SourceManager::add_file: the FileId returned is the length of files before
\* the push
AddFile(name, source) ==
    /\ Len(files) < MaxFiles
    /\ files' = Append(files, SourceFile(name, source, ComputeLineStarts(source)))
    /\ add_out' = [state |-> "done", name |-> name, source |-> source,
                   id |-> Len(files)]
    /\ UNCHANGED <<lc_out, lexVars, parseVars, spanVars, diagVars>>

\* SourceManager::get_file(id) followed by SourceFile::line_col(pos)
CallLineCol(id, p) ==
    /\ id < Len(files)
    /\ lc_out' = [state |-> "done", file |-> id, pos |-> p,
                  out |-> LineCol(files[id + 1], p)]
    /\ UNCHANGED <<files, add_out, lexVars, parseVars, spanVars, diagVars>>

\* SourceManager::get_file(id)
CallGetFile(id) ==
    /\ lc_out' = [state |-> "got", id |-> id, out |-> GetFile(files, id)]
    /\ UNCHANGED <<files, add_out, lexVars, parseVars, spanVars, diagVars>>

SrcNext ==
    \/ \E source \in SrcTexts : AddFile("main.ginto", source)
    \/ AddFile("lib.ginto", <<"a", "\n">>)
    \/ \E id \in 0..MaxFiles : CallGetFile(id)
    \/ \E id \in 0..(MaxFiles - 1), p \in 0..MaxQueryPos : CallLineCol(id, p)
SrcSpec == SrcInit /\ [][SrcNext]_vars

\* ------------------------------------------------------------------ into_diagnostic
\* the errors handed to into_diagnostic: every variant of both enums, with the
\* fields drawn from small sets
DiagChars == {"@", "a", "\n"}
DiagKinds == {"IntLiteral", "Plus", "RParen", "Eof"}
DiagTexts == {<<>>, <<"1">>, <<"1", "a">>}
DiagMessages == {<<>>, <<"">>, <<"unexpected statement">>}

IsLexerError(err) ==
    \E sp \in Spans, fid \in 0..MaxFiles :
       \/ \E ch \in DiagChars :
             err = LexerError("UnexpectedCharacter", ch, <<>>, sp, fid)
       \/ \E text \in DiagTexts :
             err = LexerError("InvalidNumber", "", text, sp, fid)
       \/ err = LexerError("NumberTooLarge", "", <<>>, sp, fid)
       \/ err = LexerError("InvalidIndentation", "", <<>>, sp, fid)

IsParserError(err) ==
    \E sp \in Spans, fid \in 0..MaxFiles :
       \/ \E n \in 0..MaxExpected :
             \E expected \in [1..n -> DiagKinds] :
                \/ \E found \in DiagKinds :
                      err = ParserError("UnexpectedToken", expected, found, sp, fid)
                \/ err = ParserError("UnexpectedEof", expected, "", sp, fid)
       \/ err = ParserError("MissingExpression", <<>>, "", sp, fid)
       \/ \E message \in DiagMessages : err = InvalidSyntax(message, sp, fid)

LexerErrorKinds ==
    {"UnexpectedCharacter", "InvalidNumber", "NumberTooLarge", "InvalidIndentation"}

DiagInit ==
    /\ IsLexerError(dg_in) \/ IsParserError(dg_in)
    /\ dg_out = [state |-> "ready"]
    /\ LexIdle /\ ParseIdle /\ SpanIdle /\ SrcIdle

\* err.into_diagnostic() on a LexerError
CallLexerIntoDiagnostic ==
    /\ dg_out.state = "ready"
    /\ dg_in.kind \in LexerErrorKinds
    /\ dg_out' = [state |-> "done", diag |-> LexerIntoDiagnostic(dg_in)]
    /\ UNCHANGED <<dg_in, lexVars, parseVars, spanVars, srcVars>>

\* err.into_diagnostic() on a ParserError
CallParserIntoDiagnostic ==
    /\ dg_out.state = "ready"
    /\ dg_in.kind \notin LexerErrorKinds
    /\ dg_out' = [state |-> "done", diag |-> ParserIntoDiagnostic(dg_in)]
    /\ UNCHANGED <<dg_in, lexVars, parseVars, spanVars, srcVars>>

DiagNext == CallLexerIntoDiagnostic \/ CallParserIntoDiagnostic
DiagSpec == DiagInit /\ [][DiagNext]_vars

\* ------------------------------------------------------------------ diagnostics claims
\* the primary labels of a diagnostic
PrimaryLabels(d) == {i \in 1..Len(d.labels) : d.labels[i].is_primary}

\* C11: every variant of LexerError and of ParserError converts to a Diagnostic
\* of severity Error with a non-empty message and a primary label whose span
\* and file identifier are those of the error
C11_IntoDiagnostic ==
    dg_out.state = "done" =>
       /\ dg_out.diag.severity = "Error"
       /\ ~StrIsEmpty(dg_out.diag.message)
       /\ \E i \in PrimaryLabels(dg_out.diag) :
             /\ dg_out.diag.labels[i].span = dg_in.span
             /\ dg_out.diag.labels[i].file_id = dg_in.file_id

\* an UnexpectedEof with two expected kinds and an InvalidSyntax with an empty
\* message have been converted
C11_Witness ==
    /\ dg_out.state = "done"
    /\ \/ dg_in.kind = "UnexpectedEof" /\ Len(dg_in.expected) = 2
       \/ dg_in.kind = "InvalidSyntax" /\ StrIsEmpty(dg_in.message)
    /\ dg_in.span.start < dg_in.span.end /\ dg_in.file_id > 0

\* ------------------------------------------------------------------ parser cursor claims
\* the index of the last token, the final Eof
LastIndex == Len(p_tokens) - 1

\* C12: over a non-empty token sequence ending in Eof the cursor stays within
\* 0..len-1 whatever the parser operations: advance at the last token leaves
\* the index unchanged, and current and peek with an offset past the end
\* return the final Eof token
C12_CursorInRange ==
    [][/\ p_pos \in 0..LastIndex
       /\ p_pos' \in 0..LastIndex
       /\ (p_result'.state = "done" /\ p_result'.op = "advance" /\ p_pos = LastIndex)
             => p_pos' = p_pos /\ p_result'.tok = p_tokens[Len(p_tokens)]
       /\ (p_result'.state = "done" /\ p_result'.op = "current")
             => p_result'.tok = p_tokens[p_pos + 1]
       /\ (p_result'.state = "done" /\ p_result'.op = "peek"
              /\ p_pos + p_result'.offset > LastIndex)
             => /\ p_result'.tok = p_tokens[Len(p_tokens)]
                /\ p_result'.tok.kind = "Eof"]_vars

\* advance was called on the final Eof after the cursor had walked two tokens
C12_Witness ==
    /\ p_result.state = "done" /\ p_result.op = "advance"
    /\ p_result.tok.kind = "Eof"
    /\ p_pos = LastIndex /\ p_pos >= 2

\* the token under the cursor
CursorToken == p_tokens[p_pos + 1]

\* C13: expect(kind) on a mismatch leaves the cursor where it was; on a match
\* it consumes exactly one token and returns it (the final Eof is never
\* consumed: expect at Eof fails for every kind); it changes nothing else
C13_ExpectFrame ==
    [][(p_result'.state = "done" /\ p_result'.op = "expect") =>
          /\ IF CursorToken.kind = p_result'.kind /\ CursorToken.kind # "Eof"
             THEN /\ p_result'.ok
                  /\ p_result'.tok = CursorToken
                  /\ p_pos' = p_pos + 1
             ELSE /\ ~p_result'.ok
                  /\ p_pos' = p_pos
          /\ p_errors' = p_errors
          /\ p_tokens' = p_tokens]_vars

\* expect(RParen) has consumed and returned a right parenthesis that was the
\* second token
C13_Witness ==
    /\ p_result.state = "done" /\ p_result.op = "expect"
    /\ p_result.ok /\ p_result.tok.kind = "RParen"
    /\ p_pos = 2

\* C14: when expect(kind) fails, the error is UnexpectedEof if the cursor is at
\* Eof, and otherwise UnexpectedToken with the expected kind, the kind found
\* and the span of the current token
C14_ExpectError ==
    (p_result.state = "done" /\ p_result.op = "expect" /\ ~p_result.ok) =>
       IF CursorToken.kind = "Eof"
       THEN p_result.err.kind = "UnexpectedEof"
       ELSE /\ p_result.err.kind = "UnexpectedToken"
            /\ p_result.err.expected = <<p_result.kind>>
            /\ p_result.err.found = CursorToken.kind
            /\ p_result.err.span = CursorToken.span

\* C16: synchronize, and with it expect_with_recovery and error_and_recover,
\* terminates: every evaluation of its loop either leaves the loop, which it
\* does when the cursor is at Eof or at a token of the sync set, or moves the
\* cursor forward by one, and the cursor never passes the final Eof
C16_SynchronizeTerminates ==
    [][p_result.state = "syncing" =>
          \/ /\ PIsAtEnd(p_tokens, p_pos) \/ PCheckAny(p_tokens, p_pos, p_result.sync)
             /\ p_result'.state = "done"
             /\ p_pos' = p_pos
          \/ /\ ~PIsAtEnd(p_tokens, p_pos)
             /\ ~PCheckAny(p_tokens, p_pos, p_result.sync)
             /\ p_result'.state = "syncing"
             /\ p_pos' = p_pos + 1
             /\ p_pos' <= LastIndex
             /\ p_result'.iters = p_result.iters + 1
             /\ p_result'.iters <= LastIndex]_vars

\* the loop that expect_with_recovery entered has skipped two tokens and
\* stands at Eof
C16_Witness ==
    /\ p_result.state = "syncing" /\ p_result.op = "expect_with_recovery"
    /\ p_result.iters = 2
    /\ PIsAtEnd(p_tokens, p_pos)

\* the kinds of a sync set
KindSet(kinds) == {kinds[i] : i \in 1..Len(kinds)}

\* the index of the first token at or after index from whose kind is in the
\* sync set, the index of the final Eof if there is none
FirstSync(from, kinds) ==
    CHOOSE j \in from..LastIndex :
        /\ j = LastIndex \/ p_tokens[j + 1].kind \in KindSet(kinds)
        /\ \A i \in from..(j - 1) : p_tokens[i + 1].kind \notin KindSet(kinds)

\* C25: on a mismatch expect_with_recovery(kind, sync) appends exactly one
\* error, then moves the cursor forward to the first token at or after the
\* current position whose kind is in sync, stopping at Eof if there is none;
\* it skips no token of the sync set and returns no token
C25_ExpectWithRecovery ==
    [][/\ (p_result'.op = "expect_with_recovery" /\ p_result.state # "syncing"
             /\ (CursorToken.kind # p_result'.kind \/ CursorToken.kind = "Eof")) =>
             /\ p_result'.state = "syncing"
             /\ p_pos' = p_pos
             /\ Len(p_errors') = Len(p_errors) + 1
             /\ SubSeq(p_errors', 1, Len(p_errors)) = p_errors
             /\ p_errors'[Len(p_errors')].kind = "UnexpectedToken"
             /\ p_errors'[Len(p_errors')].span = CursorToken.span
       /\ (p_result.state = "syncing" /\ p_result.op = "expect_with_recovery") =>
             /\ p_errors' = p_errors
             /\ p_pos' <= FirstSync(p_result.from, p_result.sync)
             /\ p_result'.state = "done" =>
                   /\ p_pos' = FirstSync(p_result.from, p_result.sync)
                   /\ ~p_result'.ok]_vars

\* expect(RParen) failed on the first token and the recovery stopped at the
\* sync token that follows it, before Eof
C25_Witness ==
    /\ p_result.state = "done" /\ p_result.op = "expect_with_recovery"
    /\ ~p_result.ok /\ p_result.from = 0
    /\ p_pos = 1 /\ p_pos < LastIndex
    /\ p_tokens[2].kind \in KindSet(p_result.sync)
    /\ Len(p_errors) = 1

\* ------------------------------------------------------------------ registry claims
\* C15: the registry is append-only with stable handles: the k-th add_file
\* (k from 0) returns FileId k, and after later add_file calls get_file of
\* every FileId issued before returns the name, text and line starts it was
\* registered with
C15_StableHandles ==
    [][/\ \A i \in 1..Len(files) : i <= Len(files') /\ files'[i] = files[i]
       /\ Len(files') # Len(files) =>
             /\ Len(files') = Len(files) + 1
             /\ add_out'.id = Len(files)
             /\ files'[add_out'.id + 1].name = add_out'.name
             /\ files'[add_out'.id + 1].source = add_out'.source
             /\ files'[add_out'.id + 1].line_starts =
                   ComputeLineStarts(add_out'.source)
       /\ (lc_out' # lc_out /\ lc_out'.state = "got" /\ lc_out'.id < Len(files)) =>
             /\ lc_out'.out.some
             /\ lc_out'.out.file = files[lc_out'.id + 1]]_vars

\* get_file(FileId(0)) after a second, different file was added
C15_Witness ==
    /\ Len(files) = 2 /\ files[1] # files[2]
    /\ add_out.state = "done" /\ add_out.id = 1
    /\ lc_out.state = "got" /\ lc_out.id = 0 /\ lc_out.out.some
    /\ lc_out.out.file.name = "lib.ginto"

\* ------------------------------------------------------------------ lexer claims
Whitespace == {" ", "\t", "\r"}

\* the offset of the first character at or after the cursor that is no
\* horizontal whitespace (the end of input if there is none)
ScanStart ==
    CHOOSE q \in pos..UMax(pos, Len(input)) :
        /\ \A k \in pos..(q - 1) : k < Len(input) /\ input[k + 1] \in Whitespace
        /\ q >= Len(input) \/ input[q + 1] \notin Whitespace

CharAt(q) == IF q < Len(input) THEN input[q + 1] ELSE NUL

\* the number of spaces that follow the character at offset q
SpacesAfter(q) ==
    CHOOSE n \in 0..Len(input) :
        /\ \A k \in 1..n : q + k < Len(input) /\ input[q + k + 1] = " "
        /\ q + n + 1 >= Len(input) \/ input[q + n + 2] # " "

StackTop == indent_stack[Len(indent_stack)]
StackWidths == {indent_stack[i] : i \in DOMAIN indent_stack}
LevelsAbove(n) == Cardinality({i \in DOMAIN indent_stack : indent_stack[i] > n})
CountKind(seq, k) == Cardinality({i \in DOMAIN seq : seq[i].kind = k})

\* the next call of next_token meets a line break
LineBreakAhead ==
    lex_result = "running" /\ ScanStart < Len(input) /\ CharAt(ScanStart) = "\n"

\* C1: every iteration of lex_all's loop strictly increases the cursor, which
\* never passes the end of input by more than two; the loop ends exactly in the
\* iteration that produces Eof, and that is the iteration entered with the
\* cursor at or past the end of input -- so lex_all terminates on every input.
C1_LexAllTerminates ==
    [][ /\ pos' > pos
        /\ pos' <= Len(input) + 2
        /\ (lex_result' # "running")
              <=> (tokens' # <<>> /\ tokens'[Len(tokens')].kind = "Eof"
                     /\ Len(tokens') > Len(tokens))
        /\ pos >= Len(input) => lex_result' # "running" ]_vars

C1_Witness ==
    /\ lex_result = "Err" /\ Len(errors) >= 2 /\ Len(tokens) >= 3

\* C2: lex_all returns Ok(tokens) only when no error was recorded, and then
\* tokens holds exactly one Eof, as its last element; it returns Err(errors)
\* only with a non-empty error list.
C2_ResultShape ==
    /\ lex_result \in {"running", "Ok", "Err"}
    /\ lex_result = "Ok" =>
          /\ errors = <<>>
          /\ tokens # <<>>
          /\ tokens[Len(tokens)].kind = "Eof"
          /\ CountKind(tokens, "Eof") = 1
    /\ lex_result = "Err" => errors # <<>>

C2_Witness == lex_result = "Ok" /\ Len(tokens) >= 4 /\ CountKind(tokens, "Newline") >= 1

\* C3: in every token sequence returned by a successful lex_all the number of
\* Indent tokens equals the number of Dedent tokens.
C3_IndentsMatchDedents ==
    lex_result = "Ok" => CountKind(tokens, "Indent") = CountKind(tokens, "Dedent")

\* C6: a line break followed by a line indented less than the top of the stack
\* and to no width on the stack adds exactly one error, an InvalidIndentation
\* at the first character after the spaces, and no token; errors already
\* recorded stay, so lex_all returns Err.
BadDedentAhead ==
    /\ LineBreakAhead
    /\ SpacesAfter(ScanStart) < StackTop
    /\ SpacesAfter(ScanStart) \notin StackWidths

C6_InvalidIndentation ==
    [][ /\ BadDedentAhead =>
              /\ errors' = Append(errors,
                     LexerError("InvalidIndentation", "", <<>>,
                                Span(ScanStart + 1 + SpacesAfter(ScanStart),
                                     ScanStart + 1 + SpacesAfter(ScanStart)), file_id))
              /\ tokens' = tokens
        /\ Len(errors') >= Len(errors)
        /\ SubSeq(errors', 1, Len(errors)) = errors
        /\ (errors # <<>> /\ lex_result' # "running") => lex_result' = "Err" ]_vars

\* lines indented 2, 3 and 1: the third line break pops two levels and fits none
C6_Witness ==
    /\ input = <<"\n", " ", " ", "\n", " ", " ", " ", "\n", " ">>
    /\ lex_result = "Err"
    /\ errors = <<LexerError("InvalidIndentation", "", <<>>, Span(9, 9), file_id)>>
    /\ CountKind(tokens, "Newline") = 2

\* C7: a line break followed by a line indented to a width on the stack below
\* the top adds one Dedent token per level popped to the returned sequence, and
\* no error.
GoodDedentAhead ==
    /\ LineBreakAhead
    /\ SpacesAfter(ScanStart) < StackTop
    /\ SpacesAfter(ScanStart) \in StackWidths

C7_DedentPerLevel ==
    [][ GoodDedentAhead =>
          /\ CountKind(tokens', "Dedent")
                = CountKind(tokens, "Dedent") + LevelsAbove(SpacesAfter(ScanStart))
          /\ errors' = errors ]_vars

\* C8: on a character that starts no token form the iteration records exactly
\* one UnexpectedCharacter with that character and its position, moves the
\* cursor to the character after it, adds no token and keeps scanning; the
\* input "23 + 1 @" ends with Err holding exactly that one error.
TokenStartChars ==
    {NUL, "\n", "-", "<", ">", "_"} \cup SingleChars \cup Letters \cup Digits

BadCharAhead ==
    /\ lex_result = "running"
    /\ ScanStart < Len(input)
    /\ CharAt(ScanStart) \notin TokenStartChars
    /\ ~(CharAt(ScanStart) \in {"&", "|"} /\ CharAt(ScanStart + 1) = CharAt(ScanStart))

C8_UnexpectedCharacter ==
    [][ /\ BadCharAhead =>
              /\ errors' = Append(errors,
                     LexerError("UnexpectedCharacter", CharAt(ScanStart), <<>>,
                                Span(ScanStart, ScanStart), file_id))
              /\ pos' = ScanStart + 1
              /\ tokens' = tokens
              /\ lex_result' = "running"
        /\ (input = ExampleUnexpected /\ lex_result' # "running") =>
              /\ lex_result' = "Err"
              /\ errors' = <<LexerError("UnexpectedCharacter", "@", <<>>, Span(7, 7), file_id)>> ]_vars

C8_Witness ==
    /\ input = ExampleUnexpected
    /\ lex_result = "Err"
    /\ Len(errors) = 1 /\ errors[1].kind = "UnexpectedCharacter"

\* ------------------------------------------------------------------ layout and operator claims
\* the next call of next_token meets a line break followed by a line indented
\* deeper than the top of the stack
IndentAhead == LineBreakAhead /\ SpacesAfter(ScanStart) > StackTop

\* C17: a line break followed by a line whose leading spaces exceed the top of
\* the stack pushes that width, and the sequence lex_all returns holds an
\* Indent token for it: every level still open at the end of input was opened
\* by a line break of its own, so a returned sequence holds at least as many
\* Indent tokens as levels are open when Eof is met
C17_IndentToken ==
    [][/\ IndentAhead => indent_stack' = Append(indent_stack, SpacesAfter(ScanStart))
       /\ (lex_result = "running" /\ lex_result' = "Ok") =>
             CountKind(tokens', "Indent") >= Len(indent_stack) - 1]_vars

\* the line breaks of the input
LineBreaks == {i \in DOMAIN input : input[i] = "\n"}

\* the input holds no NUL character (which the lexer takes for the end of input)
NulFree == \A i \in DOMAIN input : input[i] # NUL

\* C18: in every token sequence a successful lex_all returns the number of
\* Newline tokens is the number of line breaks of the input: no line break is
\* swallowed by another token (stated for the inputs without a NUL character)
C18_NewlinePerLineBreak ==
    (lex_result = "Ok" /\ NulFree) =>
       CountKind(tokens, "Newline") = Cardinality(LineBreaks)

\* C19: when a successful lex_all reaches the end of input with d levels open
\* (stack depth d+1), the returned sequence ends with exactly d Dedent tokens
\* followed by the single Eof, and the stack is [0] again when lex_all returns
C19_EofUnwinding ==
    [][(lex_result = "running" /\ lex_result' = "Ok") =>
          LET d == Len(indent_stack) - 1
              n == Len(tokens')
          IN  /\ n = Len(tokens) + d + 1
              /\ SubSeq(tokens', 1, Len(tokens)) = tokens
              /\ tokens'[n].kind = "Eof"
              /\ \A i \in (n - d)..(n - 1) : tokens'[i].kind = "Dedent"
              /\ n - d - 1 >= 1 => tokens'[n - d - 1].kind # "Dedent"
              /\ CountKind(tokens', "Eof") = 1
              /\ indent_stack' = <<0>>]_vars

\* three levels were open at the end of input and the result ends with three
\* Dedent tokens and Eof
C19_Witness ==
    /\ lex_result = "Ok"
    /\ Len(tokens) >= 5
    /\ CountKind(tokens, "Dedent") = 3
    /\ indent_stack = <<0>>
    /\ \A i \in 1..3 : tokens[Len(tokens) - i].kind = "Dedent"

\* the kind of the two-character form that starts with c and goes on with d
TwoCharKind(c, d) ==
    CASE c = "-" /\ d = ">" -> "Arrow"
      [] c = "<" /\ d = ">" -> "NotEqual"
      [] c = "<" /\ d = "=" -> "LessEqual"
      [] c = ">" /\ d = "=" -> "GreaterEqual"
      [] c = "&" /\ d = "&" -> "And"
      [] c = "|" /\ d = "|" -> "Or"
      [] OTHER -> "None"

\* the next call of next_token meets the two adjacent characters of a
\* two-character form
TwoCharAhead ==
    /\ lex_result = "running"
    /\ ScanStart + 1 < Len(input)
    /\ TwoCharKind(CharAt(ScanStart), CharAt(ScanStart + 1)) # "None"

\* C20: each of ->, <>, <=, >=, && and || written as two adjacent characters
\* is lexed as one token (Arrow, NotEqual, LessEqual, GreaterEqual, And, Or)
\* whose span covers exactly those two characters, whatever follows them: the
\* decision depends only on the character right after the first one
C20_TwoCharTokens ==
    [][TwoCharAhead =>
          /\ tokens' = Append(tokens,
                Token(TwoCharKind(CharAt(ScanStart), CharAt(ScanStart + 1)), <<>>,
                      Span(ScanStart, ScanStart + 2)))
          /\ pos' = ScanStart + 2
          /\ errors' = errors]_vars

\* ------------------------------------------------------------------ number and recovery claims
\* the next call of next_token meets a decimal digit
DigitAhead ==
    lex_result = "running" /\ ScanStart < Len(input) /\ CharAt(ScanStart) \in Digits

\* the end of the run of decimal digits that starts at offset q
RunEnd(q) ==
    CHOOSE e \in q..Len(input) :
        /\ \A k \in q..(e - 1) : input[k + 1] \in Digits
        /\ e = Len(input) \/ input[e + 1] \notin Digits

\* the decimal numeral ds without its leading zeros (a lone 0 stays)
Canonical(ds) ==
    LET k == CHOOSE j \in 1..Len(ds) :
                 /\ \A i \in 1..(j - 1) : ds[i] = "0"
                 /\ j = Len(ds) \/ ds[j] # "0"
    IN  SubSeq(ds, k, Len(ds))

\* the value of the numeral ds is at most 2^64 - 1: it has fewer digits than
\* 18446744073709551615, or as many and no first difference where it is larger
AtMostU64Max(ds) ==
    LET c == Canonical(ds)
    IN  \/ Len(c) < 20
        \/ /\ Len(c) = 20
           /\ ~\E i \in 1..20 :
                 /\ \A j \in 1..(i - 1) : c[j] = U64MaxDigits[j]
                 /\ DigitVal(c[i]) > DigitVal(U64MaxDigits[i])

\* C21: the run of decimal digits under the cursor is lexed as IntLiteral(v)
\* when its value v is at most 2^64 - 1 and as a NumberTooLarge error over the
\* whole run otherwise; no input makes the lexer record an InvalidNumber
C21_DigitRuns ==
    [][/\ DigitAhead =>
             LET q == ScanStart
                 e == RunEnd(ScanStart)
                 ds == SubSeq(input, ScanStart + 1, RunEnd(ScanStart))
             IN  IF AtMostU64Max(ds)
                 THEN /\ tokens' = Append(tokens, Token("IntLiteral", Canonical(ds), Span(q, e)))
                      /\ errors' = errors
                      /\ pos' = e
                 ELSE /\ errors' = Append(errors,
                            LexerError("NumberTooLarge", "", <<>>, Span(q, e), file_id))
                      /\ tokens' = tokens
       /\ \A i \in 1..Len(errors') : errors'[i].kind # "InvalidNumber"]_vars

\* 18446744073709551616, one more than u64::MAX, was rejected over its twenty
\* digits
C21_Witness ==
    /\ lex_result = "Err"
    /\ Len(input) >= 20 /\ SubSeq(input, 1, 20) = [U64MaxDigits EXCEPT ![20] = "6"]
    /\ errors[1] = LexerError("NumberTooLarge", "", <<>>, Span(0, 20), file_id)

\* the next call of next_token meets a run of digits whose value exceeds
\* 2^64 - 1
BigRunAhead ==
    DigitAhead /\ ~AtMostU64Max(SubSeq(input, ScanStart + 1, RunEnd(ScanStart)))

\* C22: after an error lex_all resumes without dropping input, the offending
\* character being the only one recovery skips: after NumberTooLarge the
\* cursor is on the character right after the run, after InvalidIndentation on
\* the first character after the spaces of the line (when the input has such
\* a character), after UnexpectedCharacter on the character after the
\* offending one
C22_RecoveryDropsNothing ==
    [][/\ (BigRunAhead /\ RunEnd(ScanStart) < Len(input)) =>
             pos' = RunEnd(ScanStart)
       /\ (BadDedentAhead /\ ScanStart + 1 + SpacesAfter(ScanStart) < Len(input)) =>
             pos' = ScanStart + 1 + SpacesAfter(ScanStart)
       /\ BadCharAhead => pos' = ScanStart + 1]_vars

\* ------------------------------------------------------------------ offset claims
\* the kinds of the layout tokens and of the end of input
NonTextKinds == {"Indent", "Dedent", "Newline", "Eof"}

\* the input as the file the registry holds after add_file
RegisteredInput == SourceFile("main.ginto", input, ComputeLineStarts(input))

\* C26: for every identifier, keyword, literal, operator and delimiter token of
\* lex_all, SourceFile::source of the token's span on the same registered text
\* returns exactly the characters the token was lexed from, also when the
\* text holds multi-byte characters
C26_SpansAgreeWithRegistry ==
    \A i \in 1..Len(tokens) :
        tokens[i].kind \notin NonTextKinds =>
            LET got == SourceText(RegisteredInput, tokens[i].span)
            IN  /\ got.some
                /\ got.text = [k \in 1..Len(got.text) |->
                                  [c |-> input[tokens[i].span.start + k], in |-> TRUE]]
                /\ Len(got.text) = tokens[i].span.end - tokens[i].span.start

\* C27: at every point of lex_all the indentation stack is non-empty, its
\* bottom element is 0 and its elements strictly increase from bottom to top
C27_IndentStackShape ==
    /\ Len(indent_stack) >= 1
    /\ indent_stack[1] = 0
    /\ \A i \in 1..(Len(indent_stack) - 1) : indent_stack[i] < indent_stack[i + 1]

\* a dedent to a width that is no open level was reported and left two levels
\* on the stack, after three had been open
C27_Witness ==
    /\ errors # <<>> /\ errors[Len(errors)].kind = "InvalidIndentation"
    /\ Len(indent_stack) = 2
    /\ Cardinality({i \in DOMAIN pending : pending[i] = "Indent"}) >= 2

\* C28: in every token sequence lex_all returns successfully for a text of n
\* characters, the span of every token, the Eof token and the end-of-input
\* Dedent tokens included, satisfies start <= end <= n
C28_SpansInsideText ==
    lex_result = "Ok" =>
        \A i \in 1..Len(tokens) :
            /\ tokens[i].span.start <= tokens[i].span.end
            /\ tokens[i].span.end <= Len(input)

\* ------------------------------------------------------------------ parser claims
KindsOf(toks) == [i \in DOMAIN toks |-> toks[i].kind]

\* the precedence levels of the binary operator tokens, loosest first, and the
\* tree node each one builds
LevelOf(kind) ==
    CASE kind = "Or" -> 1
      [] kind = "And" -> 2
      [] kind \in {"Equal", "NotEqual"} -> 3
      [] kind \in {"Less", "LessEqual", "Greater", "GreaterEqual"} -> 4
      [] kind \in {"Plus", "Minus"} -> 5
      [] kind \in {"Star", "Slash", "Mod"} -> 6
NodeOf(kind) ==
    CASE kind = "Or" -> "Or"
      [] kind = "And" -> "And"
      [] kind = "Equal" -> "Equal"
      [] kind = "NotEqual" -> "NotEq"
      [] kind = "Less" -> "Less"
      [] kind = "LessEqual" -> "Le"
      [] kind = "Greater" -> "Greater"
      [] kind = "GreaterEqual" -> "Ge"
      [] kind = "Plus" -> "Add"
      [] kind = "Minus" -> "Sub"
      [] kind = "Star" -> "Mul"
      [] kind = "Slash" -> "Div"
      [] kind = "Mod" -> "Mod"

\* operand (binary-operator operand)* Eof
IsChain(toks) ==
    /\ Len(toks) % 2 = 0
    /\ toks[Len(toks)].kind = "Eof"
    /\ \A i \in 1..(Len(toks) - 1) :
          IF i % 2 = 1 THEN toks[i].kind \in {"IntLiteral", "Ident", "BoolLiteral"}
          ELSE toks[i].kind \in BinaryKinds

\* the token of toks that starts at the start of span sp
TokenOfSpan(toks, sp) == toks[sp.start + 1]

\* the spans of the tokens under a tree of operands and binary nodes, left to right
RECURSIVE InOrder(_)
InOrder(e) ==
    IF e.kind = "Binary" THEN InOrder(e.lhs) \o <<e.op_span>> \o InOrder(e.rhs)
    ELSE <<e.span>>

\* the level of the operator at the root (operands rank above every operator)
RootLevel(toks, e) ==
    IF e.kind = "Binary" THEN LevelOf(TokenOfSpan(toks, e.op_span).kind) ELSE 7

\* every binary node carries the node of its operator token, spans its two
\* operands, has nothing looser below it, and nothing of its own level on its right
RECURSIVE Grouped(_, _)
Grouped(toks, e) ==
    IF e.kind # "Binary" THEN e.kind \in {"Int", "Var", "Bool"}
    ELSE /\ e.op = NodeOf(TokenOfSpan(toks, e.op_span).kind)
         /\ RootLevel(toks, e.lhs) >= RootLevel(toks, e)
         /\ RootLevel(toks, e.rhs) > RootLevel(toks, e)
         /\ e.span = Span(e.lhs.span.start, e.rhs.span.end)
         /\ Grouped(toks, e.lhs)
         /\ Grouped(toks, e.rhs)

\* C4: on operand (binary-operator operand)* Eof, parse_expr returns, with no
\* error and the cursor on Eof, the tree over exactly these tokens in order in
\* which tighter operators sit below looser ones and equal levels group left.
C4_Precedence ==
    (p_result.state = "done" /\ IsChain(p_tokens)) =>
        /\ p_result.ok
        /\ p_errors = <<>>
        /\ p_pos = Len(p_tokens) - 1
        /\ InOrder(p_result.expr) = [i \in 1..(Len(p_tokens) - 1) |-> p_tokens[i].span]
        /\ Grouped(p_tokens, p_result.expr)

\* 1 + 2 * 3 - 4 parsed as Sub(Add(1, Mul(2, 3)), 4)
C4_Witness ==
    /\ p_result.state = "done"
    /\ KindsOf(p_tokens) = <<"IntLiteral", "Plus", "IntLiteral", "Star", "IntLiteral",
                            "Minus", "IntLiteral", "Eof">>
    /\ p_result.expr.kind = "Binary" /\ p_result.expr.op = "Sub"
    /\ p_result.expr.lhs.kind = "Binary" /\ p_result.expr.lhs.op = "Add"
    /\ p_result.expr.lhs.rhs.kind = "Binary" /\ p_result.expr.lhs.rhs.op = "Mul"

\* C5: parse_expr on LParen, RParen, Eof returns Unit spanning both parentheses,
\* records no error and leaves the cursor on Eof.
C5_UnitLiteral ==
    (p_result.state = "done" /\ KindsOf(p_tokens) = <<"LParen", "RParen", "Eof">>) =>
        /\ p_result.ok
        /\ p_result.expr = UnitExpr(Span(0, 2))
        /\ p_errors = <<>>
        /\ p_pos = 2

\* ------------------------------------------------------------------ parenthesis and error claims
\* the tokens are ( e ) Eof with e free of parentheses and well formed: parsed
\* on its own from its first token, e yields a node without an error and ends
\* right before the closing parenthesis
InnerParse == ParseExpr(p_tokens, 1, <<>>, file_id)
ParenthesisedInput ==
    /\ Len(p_tokens) >= 4
    /\ p_tokens[1].kind = "LParen"
    /\ p_tokens[Len(p_tokens) - 1].kind = "RParen"
    /\ \A i \in 2..(Len(p_tokens) - 2) : p_tokens[i].kind \notin {"LParen", "RParen"}
    /\ InnerParse.ok /\ InnerParse.errors = <<>>
    /\ InnerParse.pos = Len(p_tokens) - 2

\* C23: on LParen e RParen with e a well-formed non-empty expression, a single
\* literal or identifier included, the parse returns the node of e with its
\* span widened from the start of ( to the end of ), without an error, and
\* leaves the cursor on the token after )
C23_ParenthesisedExpr ==
    (p_result.state = "done" /\ ParenthesisedInput) =>
        /\ p_result.ok
        /\ p_result.expr =
              [InnerParse.expr EXCEPT !.span =
                  Span(p_tokens[1].span.start, p_tokens[Len(p_tokens) - 1].span.end)]
        /\ p_errors = <<>>
        /\ p_pos = Len(p_tokens) - 1

\* the kinds of the tokens that are an operand by themselves
OperandKinds == {"IntLiteral", "BoolLiteral", "Ident"}

\* the kinds of the tokens that cannot start an expression: binary operators
\* other than the minus sign, the closing delimiter, layout tokens and Eof
NonStarterKinds ==
    (BinaryKinds \ {"Minus"}) \cup {"RParen", "Newline", "Indent", "Dedent", "Eof"}

\* token k stands where a primary expression is expected: the tokens before it
\* are operands, operators and opening parentheses in the order of an
\* expression still waiting for an operand
ExpectsPrimaryAt(k) ==
    /\ k = 1 \/ p_tokens[k - 1].kind \notin OperandKinds
    /\ \A i \in 1..(k - 1) :
          LET kind == p_tokens[i].kind
              after_operand == i > 1 /\ p_tokens[i - 1].kind \in OperandKinds
          IN  \/ kind \in OperandKinds \cup {"Not", "LParen"} /\ ~after_operand
              \/ kind = "Minus"
              \/ kind \in BinaryKinds \ {"Minus"} /\ after_operand

\* token k cannot start a primary expression (a closing parenthesis right
\* after the opening one closes the unit literal instead)
CannotStartAt(k) ==
    /\ p_tokens[k].kind \in NonStarterKinds
    /\ ~(k > 1 /\ p_tokens[k].kind = "RParen" /\ p_tokens[k - 1].kind = "LParen")

\* C24: when a primary expression is expected and the current token cannot
\* start one, the parser appends exactly one MissingExpression with the span
\* of that token, leaves the cursor on it, and parse_expr returns no node:
\* the enclosing unary, binary and parenthesised parses fail as well
C24_MissingExpression ==
    p_result.state = "done" =>
       \A k \in 1..Len(p_tokens) :
          (ExpectsPrimaryAt(k) /\ CannotStartAt(k)) =>
             /\ ~p_result.ok
             /\ p_result.expr = NoExpr
             /\ p_errors = <<ParserError("MissingExpression", <<>>, "",
                                         p_tokens[k].span, file_id)>>
             /\ p_pos = k - 1

\* C29: one call of parse_expr returns an expression exactly when it appended
\* no error, and it appends at most one error
C29_ExprOrOneError ==
    [][(p_result.state = "ready" /\ p_result'.state = "done") =>
          /\ p_result'.ok <=> (p_errors' = p_errors)
          /\ p_result'.ok <=> (p_result'.expr # NoExpr)
          /\ Len(p_errors') <= Len(p_errors) + 1
          /\ SubSeq(p_errors', 1, Len(p_errors)) = p_errors]_vars

\* the right operand of a binary operator was missing after two tokens were
\* consumed: no node, one error
C29_Witness ==
    /\ p_result.state = "done" /\ ~p_result.ok
    /\ Len(p_errors) = 1 /\ p_pos >= 2
    /\ BinOpOf(p_tokens[p_pos].kind) # "None"

\* the tokens are ( e followed by a token other than ): e is free of
\* parentheses and, parsed on its own from its first token, yields a node
UnclosedInput ==
    /\ Len(p_tokens) >= 3
    /\ p_tokens[1].kind = "LParen"
    /\ InnerParse.ok /\ InnerParse.errors = <<>>
    /\ \A i \in 2..InnerParse.pos : p_tokens[i].kind \notin {"LParen", "RParen"}
    /\ p_tokens[InnerParse.pos + 1].kind # "RParen"

\* C30: the closing delimiter consumed is always RParen: when the token after
\* the inner expression is not RParen, as in ( 1 + 2 followed by Eof or by
\* another token, the parser records an error and does not silently return an
\* expression
C30_ClosingDelimiterChecked ==
    (p_result.state = "done" /\ UnclosedInput) =>
        /\ p_errors # <<>>
        /\ ~p_result.ok

\* ------------------------------------------------------------------ span and registry claims
\* C9: for spans with start <= end, merge(A,B) starts at the smaller start and
\* ends at the larger end, merge(A,A) = A, merge is commutative and
\* associative, and the result has start <= end and contains both arguments.
C9_MergeAlgebra ==
    sp_out.state = "done" =>
        LET a == sp_args.a
            b == sp_args.b
            m == sp_out.ab
        IN  /\ m.start \in {a.start, b.start} /\ m.start <= a.start /\ m.start <= b.start
            /\ m.end \in {a.end, b.end} /\ m.end >= a.end /\ m.end >= b.end
            /\ sp_out.aa = a
            /\ sp_out.ab = sp_out.ba
            /\ sp_out.ab_c = sp_out.a_bc
            /\ m.start <= m.end

\* two disjoint spans given in descending order
C9_Witness ==
    /\ sp_out.state = "done"
    /\ sp_args.b.end < sp_args.a.start
    /\ sp_args.a.end < sp_args.c.start
    /\ sp_out.ab = Span(sp_args.b.start, sp_args.a.end)

\* C10: line_col(O) returns line i+1 and column O - L[i] + 1 for the largest
\* 0-based index i with L[i] <= O; an offset at or past the end of the text is
\* on the last line; the call never fails.
TextBytes(source) == IF source = <<>> THEN 0
                     ELSE LET n[i \in 0..Len(source)] ==
                                IF i = 0 THEN 0 ELSE n[i - 1] + ByteLen(source[i])
                          IN  n[Len(source)]

C10_LineCol ==
    lc_out.state = "done" =>
        LET f == files[lc_out.file + 1]
            L == f.line_starts
            O == lc_out.pos
            i == CHOOSE k \in 1..Len(L) : L[k] <= O /\ \A j \in 1..Len(L) : L[j] <= O => j <= k
        IN  /\ L[1] = 0
            /\ \A j \in 1..(Len(L) - 1) : L[j] < L[j + 1]
            /\ lc_out.out.line = i
            /\ lc_out.out.col = O - L[i] + 1
            /\ ~lc_out.out.panics
            /\ O >= TextBytes(f.source) => lc_out.out.line = Len(L)

\* the second character of a second line
C10_Witness ==
    /\ lc_out.state = "done"
    /\ Len(files[lc_out.file + 1].line_starts) >= 2
    /\ lc_out.out.line = 2
    /\ lc_out.out.col = 2

====
